---- MODULE Spec2Model ----
(***************************************************************************)
(* Compensation calculator: app/services.py (rule tables, the three        *)
(* calculators, the orchestrator) and the two request handlers of          *)
(* app/routes.py.                                                          *)
(*                                                                         *)
(* Units.  Money is an integer number of cents, so a value the code        *)
(* rounds to 2 decimals is an integer here.  A ratio the caller supplies   *)
(* (performance_multiplier) is an integer number of hundredths.  The       *)
(* decimal literals of the rule tables are scaled by CENTS, PCT and        *)
(* PER_MILLE.  An unrounded intermediate value of the code is an exact     *)
(* fraction w + r/d (cents), 0 <= r < d; products are formed quotient      *)
(* first so that no intermediate leaves the 32-bit range of TLC integers.  *)
(*                                                                         *)
(* Floating point.  The code computes in binary floating point.  For the   *)
(* decimal inputs drawn here the float result is within a few ulp of the   *)
(* exact decimal result, so round(x, 2) gives the exact nearest cent       *)
(* except when the exact value lies halfway between two cents: there the   *)
(* representation error of x decides.  The variable fp holds, for each     *)
(* round() call site, which way such a halfway value falls; Init leaves    *)
(* it open, and no call changes it (the arithmetic is deterministic).      *)
(***************************************************************************)
EXTENDS Integers, Sequences, FiniteSets, TLC

VARIABLES
    BASE_SALARY_PARAMS,      \* services.py module global
    TARGET_BONUS_PERCENT,    \* services.py module global
    LTI_RULES,               \* services.py module global
    SALARY_CAP_LOWER_BOUND,  \* services.py module global (hundredths)
    SALARY_CAP_UPPER_BOUND,  \* services.py module global (hundredths)
    fp,                      \* per round() site: does a halfway value go up
    req,                     \* the call or request being served
    resp,                    \* what it returned (NoResp before it ran)
    stages,                  \* calculators invoked by the last direct call, in order
    first,                   \* the first orchestrator call of the run
    calls,                   \* number of calls and requests served so far
    seen                     \* the functions called so far

rules == <<BASE_SALARY_PARAMS, TARGET_BONUS_PERCENT, LTI_RULES,
           SALARY_CAP_LOWER_BOUND, SALARY_CAP_UPPER_BOUND>>
vars == <<BASE_SALARY_PARAMS, TARGET_BONUS_PERCENT, LTI_RULES,
          SALARY_CAP_LOWER_BOUND, SALARY_CAP_UPPER_BOUND, fp, req, resp,
          stages, first, calls, seen>>

(***************************************************************************)
(* Scales of the decimal literals.                                         *)
(***************************************************************************)
CENTS == 100
PCT == 100
PER_MILLE == 1000

(***************************************************************************)
(* Rule tables as written in services.py, in the units above.              *)
(***************************************************************************)
BaseSalaryParamsInit ==
    [r \in {"Junior", "Mid-level", "Senior", "Executive"} |->
        CASE r = "Junior"    -> [fixed_floor |-> 50000 * CENTS,  revenue_factor |-> 5]
          [] r = "Mid-level" -> [fixed_floor |-> 75000 * CENTS,  revenue_factor |-> 10]
          [] r = "Senior"    -> [fixed_floor |-> 100000 * CENTS, revenue_factor |-> 15]
          [] r = "Executive" -> [fixed_floor |-> 150000 * CENTS, revenue_factor |-> 20]]

TargetBonusPercentInit ==
    [r \in {"Junior", "Mid-level", "Senior", "Executive"} |->
        CASE r = "Junior"    -> 30
          [] r = "Mid-level" -> 60
          [] r = "Senior"    -> 100
          [] r = "Executive" -> 125]

\* a table whose deferral and fund shares exceed the whole bonus
LtiRulesOverAllocated ==
    [r \in {"Junior", "Mid-level", "Senior", "Executive"} |->
        [deferral_pct |-> 70, equity_eligible |-> r # "Junior",
         equity_factor |-> 0, fund_investment_pct |-> 40]]

LtiRulesInit ==
    [r \in {"Junior", "Mid-level", "Senior", "Executive"} |->
        CASE r = "Junior"    -> [deferral_pct |-> 10, equity_eligible |-> FALSE,
                                 equity_factor |-> 0, fund_investment_pct |-> 5]
          [] r = "Mid-level" -> [deferral_pct |-> 20, equity_eligible |-> TRUE,
                                 equity_factor |-> 25, fund_investment_pct |-> 10]
          [] r = "Senior"    -> [deferral_pct |-> 30, equity_eligible |-> TRUE,
                                 equity_factor |-> 40, fund_investment_pct |-> 15]
          [] r = "Executive" -> [deferral_pct |-> 40, equity_eligible |-> TRUE,
                                 equity_factor |-> 50, fund_investment_pct |-> 20]]

SalaryCapLowerInit == 85
SalaryCapUpperInit == 115

(***************************************************************************)
(* Values.  A numeric argument is Num(n); an argument that is no number    *)
(* (a string cell of an uploaded file, a wrongly typed direct argument)    *)
(* is Str(s).                                                              *)
(***************************************************************************)
Num(n) == [num |-> n]
Str(s) == [str |-> s]
IsNum(v) == "num" \in DOMAIN v

\* dict.get(key) returns None exactly when the key is absent
Has(table, key) == key \in DOMAIN table

Ret(v) == [ret |-> v]
Raise(e, m) == [exc |-> e, msg |-> m]
Raised(o) == "exc" \in DOMAIN o

\* the message without the offending value
InvalidRoleNoValue(role_level) == Raise("ValueError", "Invalid role level")

InvalidRole(role_level) == Raise("ValueError", "Invalid role level: " \o role_level)
NotANumber == Raise("TypeError", "can't multiply sequence by non-int of type 'float'")

(***************************************************************************)
(* Exact fractions w + r/d with 0 <= r < d.                                *)
(***************************************************************************)
Whole(w, d) == [w |-> w, r |-> 0, d |-> d]

\* a * n / d for integers a, n and d > 0
MulDiv(a, n, d) ==
    LET lo == (a % d) * n
    IN  [w |-> (a \div d) * n + (lo \div d), r |-> lo % d, d |-> d]

\* x * n / d for a fraction x
MulFrac(x, n, d) ==
    LET q == MulDiv(x.w, n, d)
        num == q.r * x.d + x.r * n
        dd == x.d * d
    IN  [w |-> q.w + (num \div dd), r |-> num % dd, d |-> dd]

\* x - y
SubFrac(x, y) ==
    LET dd == x.d * y.d
        num == x.r * y.d - y.r * x.d
    IN  [w |-> x.w - y.w + (num \div dd), r |-> num % dd, d |-> dd]

LtFrac(x, y) == x.w < y.w \/ (x.w = y.w /\ x.r * y.d < y.r * x.d)

\* Python's min(a, b) and max(a, b): the first argument unless the second wins
\* max where min is meant
MinFracAsMax(a, b) == IF LtFrac(a, b) THEN b ELSE a
MinFrac(a, b) == IF LtFrac(b, a) THEN b ELSE a
MaxFrac(a, b) == IF LtFrac(a, b) THEN b ELSE a

\* round(x, 2) at the call site `site`
Round2(x, site) ==
    IF 2 * x.r < x.d THEN x.w
    ELSE IF 2 * x.r > x.d THEN x.w + 1
    ELSE IF fp[site] THEN x.w + 1 ELSE x.w

Sites == {"base", "target", "perf", "deferred", "equity", "fund", "immediate"}

(***************************************************************************)
(* services.py: the calculators.                                           *)
(***************************************************************************)
calculate_base_salary(role_level, team_revenue, last_years_salary) ==
    LET params == BASE_SALARY_PARAMS[role_level]
    IN  IF ~Has(BASE_SALARY_PARAMS, role_level) THEN InvalidRole(role_level)
        ELSE IF ~IsNum(team_revenue) \/ ~IsNum(last_years_salary) THEN NotANumber
        ELSE
          LET growth == MulDiv(team_revenue.num, params.revenue_factor, PER_MILLE)
              potential_salary == [growth EXCEPT !.w = @ + params.fixed_floor]
              lower_cap == MulDiv(last_years_salary.num, SALARY_CAP_LOWER_BOUND, PCT)
              upper_cap == MulDiv(last_years_salary.num, SALARY_CAP_UPPER_BOUND, PCT)
              calculated_base == MaxFrac(lower_cap, MinFrac(potential_salary, upper_cap))
          IN  Ret(Round2(calculated_base, "base"))

\* the multiplier applied to the target already rounded to cents
BonusBaseRounded(target_bonus_amount) ==
    Whole(Round2(target_bonus_amount, "target"), target_bonus_amount.d)

\* line 52: the amount the multiplier applies to is the unrounded target
BonusBase(target_bonus_amount) == target_bonus_amount

calculate_performance_bonus(calculated_base_salary, role_level, performance_multiplier) ==
    LET target_pct == TARGET_BONUS_PERCENT[role_level]
    IN  IF ~Has(TARGET_BONUS_PERCENT, role_level) THEN InvalidRole(role_level)
        ELSE IF ~IsNum(calculated_base_salary) \/ ~IsNum(performance_multiplier)
             THEN NotANumber
        ELSE
          LET target_bonus_amount == MulDiv(calculated_base_salary.num, target_pct, PCT)
              performance_bonus == MulFrac(BonusBase(target_bonus_amount),
                                           performance_multiplier.num, PCT)
          IN  Ret(<<Round2(target_bonus_amount, "target"), Round2(performance_bonus, "perf")>>)

\* equity scaled from the performance bonus
EquityBaseFromPerformance(performance_bonus, target_bonus_amount) == performance_bonus

\* the fund investment left in the immediate cash
ImmediateCashFundKept(performance_bonus, deferred_cash, fund_investment_amount) ==
    SubFrac(Whole(performance_bonus, 1), deferred_cash)

\* line 90: the amount the equity factor applies to
EquityBase(performance_bonus, target_bonus_amount) == target_bonus_amount

\* line 93: what is left of the bonus
ImmediateCash(performance_bonus, deferred_cash, fund_investment_amount) ==
    SubFrac(SubFrac(Whole(performance_bonus, 1), deferred_cash), fund_investment_amount)

calculate_lti_and_cash(performance_bonus, target_bonus_amount, role_level) ==
    LET lti == LTI_RULES[role_level]
    IN  IF ~Has(LTI_RULES, role_level) THEN InvalidRole(role_level)
        ELSE IF ~IsNum(performance_bonus) THEN NotANumber
        ELSE IF lti.equity_eligible
                /\ ~IsNum(EquityBase(performance_bonus, target_bonus_amount))
             THEN NotANumber
        ELSE
          LET deferred_cash == MulDiv(performance_bonus.num, lti.deferral_pct, PCT)
              fund_investment_amount == MulDiv(performance_bonus.num, lti.fund_investment_pct, PCT)
              equity_award_value == IF lti.equity_eligible
                                    THEN MulDiv(EquityBase(performance_bonus,
                                                           target_bonus_amount).num,
                                                lti.equity_factor, PCT)
                                    ELSE Whole(0, PCT)
              immediate_cash_bonus ==
                  ImmediateCash(performance_bonus.num, deferred_cash, fund_investment_amount)
          IN  Ret([deferred_cash |-> Round2(deferred_cash, "deferred"),
                   equity_award_value |-> Round2(equity_award_value, "equity"),
                   fund_investment_amount |-> Round2(fund_investment_amount, "fund"),
                   immediate_cash_bonus |-> Round2(immediate_cash_bonus, "immediate")])

(***************************************************************************)
(* services.py: the orchestrator.  Orchestrate runs the three stages and   *)
(* yields what calculate_total_compensation returns (out) together with    *)
(* the calculators it invoked on the way, in order (invoked).              *)
(***************************************************************************)
UNEXPECTED == "An unexpected error occurred during calculation."

\* the two except clauses
Caught(e) == IF e.exc = "ValueError" THEN [error |-> e.msg] ELSE [error |-> UNEXPECTED]

\* a failure of the bonus stage reported beside the base salary already computed
OrchestratePartial(role_level, team_revenue, last_years_salary, performance_multiplier) ==
    LET base_salary == calculate_base_salary(role_level, team_revenue, last_years_salary)
        bonus == calculate_performance_bonus(Num(base_salary.ret), role_level,
                                             performance_multiplier)
        lti_components == calculate_lti_and_cash(Num(bonus.ret[2]), Num(bonus.ret[1]),
                                                 role_level)
    IN  IF Raised(base_salary)
        THEN [out |-> Caught(base_salary), invoked |-> <<"calculate_base_salary">>]
        ELSE IF Raised(bonus)
        THEN [out |-> [calculated_base_salary |-> base_salary.ret,
                       error |-> Caught(bonus).error],
              invoked |-> <<"calculate_base_salary", "calculate_performance_bonus">>]
        ELSE [out |->
                [calculated_base_salary |-> base_salary.ret,
                 target_bonus_amount |-> bonus.ret[1],
                 performance_bonus |-> bonus.ret[2],
                 lti_breakdown |->
                   [deferred_cash |-> lti_components.ret.deferred_cash,
                    equity_award_value |-> lti_components.ret.equity_award_value,
                    fund_investment_amount |-> lti_components.ret.fund_investment_amount],
                 immediate_cash_bonus |-> lti_components.ret.immediate_cash_bonus],
              invoked |-> <<"calculate_base_salary", "calculate_performance_bonus",
                            "calculate_lti_and_cash">>]

Orchestrate(role_level, team_revenue, last_years_salary, performance_multiplier) ==
    LET base_salary == calculate_base_salary(role_level, team_revenue, last_years_salary)
    IN  IF Raised(base_salary)
        THEN [out |-> Caught(base_salary), invoked |-> <<"calculate_base_salary">>]
        ELSE
          LET bonus == calculate_performance_bonus(Num(base_salary.ret), role_level,
                                                   performance_multiplier)
          IN  IF Raised(bonus)
              THEN [out |-> Caught(bonus),
                    invoked |-> <<"calculate_base_salary", "calculate_performance_bonus">>]
              ELSE
                LET target_bonus == bonus.ret[1]
                    perf_bonus == bonus.ret[2]
                    lti_components == calculate_lti_and_cash(Num(perf_bonus), Num(target_bonus),
                                                             role_level)
                    all == <<"calculate_base_salary", "calculate_performance_bonus",
                             "calculate_lti_and_cash">>
                IN  IF Raised(lti_components)
                    THEN [out |-> Caught(lti_components), invoked |-> all]
                    ELSE [out |->
                            [calculated_base_salary |-> base_salary.ret,
                             target_bonus_amount |-> target_bonus,
                             performance_bonus |-> perf_bonus,
                             lti_breakdown |->
                               [deferred_cash |-> lti_components.ret.deferred_cash,
                                equity_award_value |-> lti_components.ret.equity_award_value,
                                fund_investment_amount |->
                                    lti_components.ret.fund_investment_amount],
                             immediate_cash_bonus |-> lti_components.ret.immediate_cash_bonus],
                          invoked |-> all]

calculate_total_compensation(role_level, team_revenue, last_years_salary, performance_multiplier) ==
    Orchestrate(role_level, team_revenue, last_years_salary, performance_multiplier).out

(***************************************************************************)
(* Calls.  A call record names the function and carries its arguments.     *)
(***************************************************************************)
NoResp == [pending |-> TRUE]
\* resp holds the outcome under the name of the function that produced it
Resp(fn, outcome) == [f \in {fn} |-> outcome]
NoCall == [nocall |-> TRUE]

\* the call accumulating the revenue part into the shared table entry
BaseSalaryCallWritesTable(c) ==
    /\ c.fn = "calculate_base_salary"
    /\ req' = c
    /\ resp' = Resp(c.fn, calculate_base_salary(c.role_level, c.team_revenue,
                                              c.last_years_salary))
    /\ stages' = <<"calculate_base_salary">>
    /\ calls' = calls + 1
    /\ seen' = seen \cup {c.fn}
    /\ BASE_SALARY_PARAMS' =
         IF Has(BASE_SALARY_PARAMS, c.role_level) /\ IsNum(c.team_revenue)
         THEN [BASE_SALARY_PARAMS EXCEPT ![c.role_level].fixed_floor =
                  @ + MulDiv(c.team_revenue.num,
                             BASE_SALARY_PARAMS[c.role_level].revenue_factor, PER_MILLE).w]
         ELSE BASE_SALARY_PARAMS
    /\ UNCHANGED <<TARGET_BONUS_PERCENT, LTI_RULES, SALARY_CAP_LOWER_BOUND,
                   SALARY_CAP_UPPER_BOUND, fp, first>>

BaseSalaryCall(c) ==
    /\ c.fn = "calculate_base_salary"
    /\ req' = c
    /\ resp' = Resp(c.fn, calculate_base_salary(c.role_level, c.team_revenue,
                                              c.last_years_salary))
    /\ stages' = <<"calculate_base_salary">>
    /\ calls' = calls + 1
    /\ seen' = seen \cup {c.fn}
    /\ UNCHANGED <<rules, fp, first>>

PerformanceBonusCall(c) ==
    /\ c.fn = "calculate_performance_bonus"
    /\ req' = c
    /\ resp' = Resp(c.fn, calculate_performance_bonus(c.calculated_base_salary, c.role_level,
                                                    c.performance_multiplier))
    /\ stages' = <<"calculate_performance_bonus">>
    /\ calls' = calls + 1
    /\ seen' = seen \cup {c.fn}
    /\ UNCHANGED <<rules, fp, first>>

LtiAndCashCall(c) ==
    /\ c.fn = "calculate_lti_and_cash"
    /\ req' = c
    /\ resp' = Resp(c.fn, calculate_lti_and_cash(c.performance_bonus, c.target_bonus_amount,
                                               c.role_level))
    /\ stages' = <<"calculate_lti_and_cash">>
    /\ calls' = calls + 1
    /\ seen' = seen \cup {c.fn}
    /\ UNCHANGED <<rules, fp, first>>

TotalCompensationCall(c) ==
    /\ c.fn = "calculate_total_compensation"
    /\ req' = c
    /\ LET o == Orchestrate(c.role_level, c.team_revenue, c.last_years_salary,
                            c.performance_multiplier)
       IN  /\ resp' = Resp(c.fn, Ret(o.out))
           /\ stages' = o.invoked
           /\ first' = IF first = NoCall
                       THEN [req |-> c, resp |-> Ret(o.out), at |-> calls + 1]
                       ELSE first
    /\ calls' = calls + 1
    /\ seen' = seen \cup {c.fn}
    /\ UNCHANGED <<rules, fp>>

(***************************************************************************)
(* routes.py.  A cell of a JSON body or of an uploaded table is Num(n), a  *)
(* number (n in hundredths), or Str(s), a string.  float() takes a number  *)
(* as it is, parses a string that spells a number and raises ValueError    *)
(* on any other string.  role_level cells are strings, which str() returns *)
(* unchanged.                                                              *)
(***************************************************************************)
FloatLiterals == {"250000", "1.2", "-1"}

ParseFloat(s) ==
    CASE s = "250000" -> 25000000
      [] s = "1.2" -> 120
      [] s = "-1" -> -100

float(cell) ==
    IF IsNum(cell) THEN Ret(cell.num)
    ELSE IF cell.str \in FloatLiterals THEN Ret(ParseFloat(cell.str))
    ELSE Raise("ValueError", "could not convert string to float: '" \o cell.str \o "'")

required_fields == <<"role_level", "team_revenue", "last_years_salary",
                     "performance_multiplier">>

\* ', '.join(names)
RECURSIVE Join(_)
Join(names) ==
    IF names = <<>> THEN ""
    ELSE IF Len(names) = 1 THEN names[1]
    ELSE names[1] \o ", " \o Join(Tail(names))

\* {**a, **b}
Merge(a, b) == [k \in DOMAIN a \cup DOMAIN b |-> IF k \in DOMAIN b THEN b[k] ELSE a[k]]

\* "Invalid role level" in result["error"]: of the two messages the
\* orchestrator produces, the one that is not the generic message
MentionsInvalidRole(msg) == msg # UNEXPECTED

Json(status, body) == [status |-> status, body |-> body]

handle_calculate_compensation(is_json, data) ==
    LET missing_fields == SelectSeq(required_fields, LAMBDA f : f \notin DOMAIN data)
        team_revenue == float(data.team_revenue)
        last_years_salary == float(data.last_years_salary)
        performance_multiplier == float(data.performance_multiplier)
        invalid(m) == Json(400, [error |-> "Invalid input type or value: " \o m])
        result == calculate_total_compensation(data.role_level, Num(team_revenue.ret),
                                               Num(last_years_salary.ret),
                                               Num(performance_multiplier.ret))
    IN  IF ~is_json THEN Json(400, [error |-> "Request must be JSON"])
        ELSE IF missing_fields # <<>>
             THEN Json(400, [error |-> "Missing required fields: " \o Join(missing_fields)])
        ELSE IF Raised(team_revenue) THEN invalid(team_revenue.msg)
        ELSE IF Raised(last_years_salary) THEN invalid(last_years_salary.msg)
        ELSE IF Raised(performance_multiplier) THEN invalid(performance_multiplier.msg)
        ELSE IF team_revenue.ret < 0 \/ last_years_salary.ret < 0
                \/ performance_multiplier.ret < 0
             THEN invalid("Numeric inputs must be non-negative.")
        ELSE IF "error" \in DOMAIN result
             THEN Json(IF MentionsInvalidRole(result.error) THEN 400 ELSE 500, result)
        ELSE Json(200, Merge([inputs_received |-> data], result))

\* the loop body of batch_calculate_compensation: one row's result
RowResult(row) ==
    LET team_revenue == float(row.team_revenue)
        last_years_salary == float(row.last_years_salary)
        performance_multiplier == float(row.performance_multiplier)
    IN  IF Raised(team_revenue) THEN [error |-> team_revenue.msg]
        ELSE IF Raised(last_years_salary) THEN [error |-> last_years_salary.msg]
        ELSE IF Raised(performance_multiplier) THEN [error |-> performance_multiplier.msg]
        ELSE calculate_total_compensation(row.role_level, Num(team_revenue.ret),
                                          Num(last_years_salary.ret),
                                          Num(performance_multiplier.ret))

\* the loop given up at the first row that fails
RECURSIVE BatchResultsAbortOnError(_)
BatchResultsAbortOnError(rows) ==
    IF rows = <<>> THEN <<>>
    ELSE IF "error" \in DOMAIN RowResult(rows[1]) THEN <<>>
    ELSE <<Merge(rows[1], RowResult(rows[1]))>> \o BatchResultsAbortOnError(Tail(rows))

\* the loop: results after the rows, in iteration order
RECURSIVE BatchResults(_)
BatchResults(rows) ==
    IF rows = <<>> THEN <<>>
    ELSE <<Merge(rows[1], RowResult(rows[1]))>> \o BatchResults(Tail(rows))

\* file: what request.files holds; columns, rows: the table read from it
batch_calculate_compensation(file, columns, rows) ==
    LET missing_fields == SelectSeq(required_fields, LAMBDA f : f \notin columns)
    IN  IF file = "absent" THEN Json(400, [error |-> "No file part in the request."])
        ELSE IF file = "unnamed" THEN Json(400, [error |-> "No selected file."])
        ELSE IF file = "unsupported"
             THEN Json(400, [error |->
                       "Unsupported file type. Please upload CSV or Excel files."])
        ELSE IF file = "unreadable" THEN Json(400, [error |-> "Failed to read file"])
        ELSE IF missing_fields # <<>>
             THEN Json(400, [error |-> "Missing required columns: " \o Join(missing_fields)])
        ELSE [status |-> 200, download_name |-> "compensation_results.csv",
              body |-> BatchResults(rows)]

HandleCalculateCompensation(c) ==
    /\ c.fn = "handle_calculate_compensation"
    /\ req' = c
    /\ resp' = Resp(c.fn, handle_calculate_compensation(c.is_json, c.data))
    /\ calls' = calls + 1
    /\ seen' = seen \cup {c.fn}
    /\ UNCHANGED <<rules, fp, stages, first>>

BatchCalculateCompensation(c) ==
    /\ c.fn = "batch_calculate_compensation"
    /\ req' = c
    /\ resp' = Resp(c.fn, batch_calculate_compensation(c.file, c.columns, c.rows))
    /\ calls' = calls + 1
    /\ seen' = seen \cup {c.fn}
    /\ UNCHANGED <<rules, fp, stages, first>>

(***************************************************************************)
(* Inputs.                                                                 *)
(***************************************************************************)
MaxSmallCents == 3

RoleStrings == {"Junior", "Mid-level", "Senior", "Executive", "Manager", "junior", ""}

Revenues == {Num(-100), Num(0), Num(100), Num(1000000000), Num(2000000000), Str("abc")}

Salaries == {Num(-100), Num(10), Num(5000000), Num(8000000), Num(25000000), Str("abc")}
            \cup {Num(n) : n \in 0..MaxSmallCents}

Multipliers == {Num(-50), Num(0), Num(100), Num(120), Num(333), Str("abc")}

BaseSalaries == {Num(-100), Num(10), Num(33333), Num(28750000)}
                \cup {Num(n) : n \in 0..MaxSmallCents}

PerformanceBonuses == {Num(-100), Num(5), Num(15), Num(43125000), Str("abc")}
                      \cup {Num(n) : n \in 0..MaxSmallCents}

TargetBonuses == {Num(-100), Num(2), Num(35937500), Str("abc")}

BaseSalaryCalls ==
    [fn : {"calculate_base_salary"}, role_level : RoleStrings,
     team_revenue : Revenues, last_years_salary : Salaries]

PerformanceBonusCalls ==
    [fn : {"calculate_performance_bonus"}, calculated_base_salary : BaseSalaries,
     role_level : RoleStrings, performance_multiplier : Multipliers]

LtiAndCashCalls ==
    [fn : {"calculate_lti_and_cash"}, performance_bonus : PerformanceBonuses,
     target_bonus_amount : TargetBonuses, role_level : RoleStrings]

TotalCompensationCalls ==
    [fn : {"calculate_total_compensation"}, role_level : RoleStrings,
     team_revenue : Revenues, last_years_salary : Salaries,
     performance_multiplier : Multipliers]

JsonBodies ==
    [role_level : {"Senior", "Manager"},
     team_revenue : {Num(1000000000), Str("abc")},
     last_years_salary : {Num(8000000), Str("250000"), Num(-100)},
     performance_multiplier : {Num(120), Str("1.2"), Str("-1")}]
    \cup {[role_level |-> "Senior"],
          [role_level |-> "Senior", team_revenue |-> Num(0), last_years_salary |-> Num(0)]}

SingleRequests ==
    [fn : {"handle_calculate_compensation"}, is_json : BOOLEAN, data : JsonBodies]

MaxRows == 2

TableRows ==
    [role_level : {"Executive", "Manager"},
     team_revenue : {Num(2000000000), Str("abc")},
     last_years_salary : {Num(25000000), Num(-100)},
     performance_multiplier : {Num(120), Str("1.2")}]

ShortRows ==
    {[role_level |-> "Executive", team_revenue |-> Num(0), last_years_salary |-> Num(0)]}

SeqsUpTo(S, n) == UNION {[1..k -> S] : k \in 0..n}

BatchRequests ==
    [fn : {"batch_calculate_compensation"},
     file : {"absent", "unnamed", "unsupported", "unreadable"},
     columns : {{}}, rows : {<<>>}]
    \cup [fn : {"batch_calculate_compensation"}, file : {"table"},
          columns : {{"role_level", "team_revenue", "last_years_salary"}},
          rows : SeqsUpTo(ShortRows, 1)]
    \cup [fn : {"batch_calculate_compensation"}, file : {"table"},
          columns : {{"role_level", "team_revenue", "last_years_salary",
                      "performance_multiplier"}},
          rows : SeqsUpTo(TableRows, MaxRows)]

\* the calls of a run that makes several
RepeatBaseSalaryCalls ==
    [fn : {"calculate_base_salary"}, role_level : {"Senior", "Manager"},
     team_revenue : {Num(1000000000)}, last_years_salary : {Num(10), Num(8000000)}]

RepeatPerformanceBonusCalls ==
    [fn : {"calculate_performance_bonus"}, calculated_base_salary : {Num(10)},
     role_level : {"Senior", "Manager"}, performance_multiplier : {Num(120), Str("abc")}]

RepeatLtiAndCashCalls ==
    [fn : {"calculate_lti_and_cash"}, performance_bonus : {Num(15)},
     target_bonus_amount : {Num(2)}, role_level : {"Senior", "Manager"}]

RepeatTotalCompensationCalls ==
    [fn : {"calculate_total_compensation"}, role_level : {"Senior", "Manager"},
     team_revenue : {Num(1000000000)}, last_years_salary : {Num(10), Num(8000000)},
     performance_multiplier : {Num(120), Str("abc")}]

RulesInit ==
    /\ BASE_SALARY_PARAMS = BaseSalaryParamsInit
    /\ TARGET_BONUS_PERCENT = TargetBonusPercentInit
    /\ LTI_RULES = LtiRulesInit
    /\ SALARY_CAP_LOWER_BOUND = SalaryCapLowerInit
    /\ SALARY_CAP_UPPER_BOUND = SalaryCapUpperInit

(***************************************************************************)
(* Spec: one direct call of a calculator or of the orchestrator.           *)
(***************************************************************************)
Init ==
    /\ RulesInit
    /\ fp \in [Sites -> BOOLEAN]
    /\ req \in BaseSalaryCalls \cup PerformanceBonusCalls \cup LtiAndCashCalls
               \cup TotalCompensationCalls \cup SingleRequests
    /\ resp = NoResp
    /\ stages = <<>>
    /\ first = NoCall
    /\ calls = 0
    /\ seen = {}

DirectBaseSalary == resp = NoResp /\ BaseSalaryCall(req)
DirectPerformanceBonus == resp = NoResp /\ PerformanceBonusCall(req)
DirectLtiAndCash == resp = NoResp /\ LtiAndCashCall(req)
DirectTotalCompensation == resp = NoResp /\ TotalCompensationCall(req)
ServeCalculateCompensation == resp = NoResp /\ HandleCalculateCompensation(req)

Next ==
    \/ DirectBaseSalary
    \/ DirectPerformanceBonus
    \/ DirectLtiAndCash
    \/ DirectTotalCompensation
    \/ ServeCalculateCompensation

Spec == Init /\ [][Next]_vars

(***************************************************************************)
(* SpecRepeat: any sequence of direct calls, one after the other.          *)
(***************************************************************************)
NoReq == [fn |-> "none"]
MaxCalls == 3

InitRepeat ==
    /\ RulesInit
    /\ fp \in {[s \in Sites |-> b] : b \in BOOLEAN}
    /\ req = NoReq
    /\ resp = NoResp
    /\ stages = <<>>
    /\ first = NoCall
    /\ calls = 0
    /\ seen = {}

RepeatBaseSalary ==
    calls < MaxCalls /\ \E c \in RepeatBaseSalaryCalls : BaseSalaryCall(c)
RepeatPerformanceBonus ==
    calls < MaxCalls /\ \E c \in RepeatPerformanceBonusCalls : PerformanceBonusCall(c)
RepeatLtiAndCash ==
    calls < MaxCalls /\ \E c \in RepeatLtiAndCashCalls : LtiAndCashCall(c)
RepeatTotalCompensation ==
    calls < MaxCalls /\ \E c \in RepeatTotalCompensationCalls : TotalCompensationCall(c)

NextRepeat ==
    \/ RepeatBaseSalary
    \/ RepeatPerformanceBonus
    \/ RepeatLtiAndCash
    \/ RepeatTotalCompensation

SpecRepeat == InitRepeat /\ [][NextRepeat]_vars

(***************************************************************************)
(* SpecBatch: one upload to /api/batch_calculate_compensation.             *)
(***************************************************************************)
InitBatch ==
    /\ RulesInit
    /\ fp \in [Sites -> BOOLEAN]
    /\ req \in BatchRequests
    /\ resp = NoResp
    /\ stages = <<>>
    /\ first = NoCall
    /\ calls = 0
    /\ seen = {}

ServeBatch == resp = NoResp /\ BatchCalculateCompensation(req)

NextBatch == ServeBatch

SpecBatch == InitBatch /\ [][NextBatch]_vars

(***************************************************************************)
(* Properties.                                                             *)
(***************************************************************************)
ValidRoles == {"Junior", "Mid-level", "Senior", "Executive"}

Served == resp # NoResp
\* the outcome of the call in hand
Out == resp[req.fn]
Called(fn) == Served /\ req.fn = fn

\* v is the value x rounded to the nearest whole, either neighbour when x is halfway
IsRound2(v, x) ==
    IF 2 * x.r < x.d THEN v = x.w
    ELSE IF 2 * x.r > x.d THEN v = x.w + 1
    ELSE v \in {x.w, x.w + 1}

NonNegative(v) == IsNum(v) /\ v.num >= 0
Negative(v) == IsNum(v) /\ v.num < 0

\* base is within a cent of [0.85, 1.15] * salary (all in cents; 0.85 = 17/20)
WithinCap(base, salary) ==
    /\ 20 * base >= 17 * salary - 20
    /\ 20 * base <= 23 * salary + 20
    /\ salary = 0 => base = 0

\* C1: for a valid role, team_revenue >= 0 and last_years_salary >= 0 the base
\* salary returned by calculate_base_salary (and reported by the orchestrator)
\* lies between 0.85 and 1.15 times last_years_salary, within 0.01, and is 0
\* when last_years_salary is 0.
C1_CapInvariant ==
    /\ (Called("calculate_base_salary") /\ req.role_level \in ValidRoles
          /\ NonNegative(req.team_revenue) /\ NonNegative(req.last_years_salary))
       => (~Raised(Out) /\ WithinCap(Out.ret, req.last_years_salary.num))
    /\ (Called("calculate_total_compensation") /\ req.role_level \in ValidRoles
          /\ NonNegative(req.team_revenue) /\ NonNegative(req.last_years_salary)
          /\ "error" \notin DOMAIN Out.ret)
       => WithinCap(Out.ret.calculated_base_salary, req.last_years_salary.num)

\* a potential salary of 175000.00 capped to 1.15 * 80000.00
C1_Witness ==
    /\ Called("calculate_base_salary")
    /\ req.role_level = "Mid-level"
    /\ req.team_revenue = Num(1000000000)
    /\ req.last_years_salary = Num(8000000)
    /\ Out = Ret(9200000)

\* C2: for a role outside the four role levels every calculator raises
\* ValueError "Invalid role level: <role>" whatever the other arguments are,
\* and the orchestrator returns {error: "Invalid role level: <role>"}.
C2_InvalidRoleReported ==
    (Served /\ req.fn \in {"calculate_base_salary", "calculate_performance_bonus",
                           "calculate_lti_and_cash", "calculate_total_compensation"}
       /\ req.role_level \notin ValidRoles)
    => IF req.fn = "calculate_total_compensation"
       THEN Out = Ret([error |-> "Invalid role level: " \o req.role_level])
       ELSE Out = Raise("ValueError", "Invalid role level: " \o req.role_level)

\* the orchestrator given "Manager" and a multiplier that is no number
C2_Witness ==
    /\ Called("calculate_total_compensation")
    /\ req.role_level = "Manager"
    /\ req.performance_multiplier = Str("abc")
    /\ Out = Ret([error |-> "Invalid role level: Manager"])

\* C3: a direct call of calculate_base_salary, calculate_performance_bonus or
\* calculate_total_compensation with a negative team_revenue, last_years_salary
\* or performance_multiplier ends in an error, never in a computed result.
C3_NegativeInputRejected ==
    /\ (Called("calculate_base_salary")
          /\ (Negative(req.team_revenue) \/ Negative(req.last_years_salary)))
       => Raised(Out)
    /\ (Called("calculate_performance_bonus") /\ Negative(req.performance_multiplier))
       => Raised(Out)
    /\ (Called("calculate_total_compensation")
          /\ (Negative(req.team_revenue) \/ Negative(req.last_years_salary)
              \/ Negative(req.performance_multiplier)))
       => "error" \in DOMAIN Out.ret

\* the bonus stage as the call in hand reached it: base salary, the two amounts
BonusCase ==
    IF req.fn = "calculate_performance_bonus"
    THEN [base |-> req.calculated_base_salary.num,
          target |-> Out.ret[1], perf |-> Out.ret[2]]
    ELSE [base |-> Out.ret.calculated_base_salary,
          target |-> Out.ret.target_bonus_amount,
          perf |-> Out.ret.performance_bonus]

\* a bonus stage that ran to its end on a valid role and non-negative numbers
BonusComputed ==
    /\ Served
    /\ req.fn \in {"calculate_performance_bonus", "calculate_total_compensation"}
    /\ req.role_level \in ValidRoles
    /\ \/ /\ req.fn = "calculate_performance_bonus"
          /\ NonNegative(req.calculated_base_salary)
          /\ NonNegative(req.performance_multiplier)
       \/ /\ req.fn = "calculate_total_compensation"
          /\ NonNegative(req.team_revenue) /\ NonNegative(req.last_years_salary)
          /\ NonNegative(req.performance_multiplier)

\* C4 as stated: the performance bonus is the rounded target bonus times the
\* multiplier, rounded to 2 decimals.
C4_RoundedTargetMultiplied ==
    BonusComputed =>
       /\ IsRound2(BonusCase.target,
                   MulDiv(BonusCase.base, TargetBonusPercentInit[req.role_level], 100))
       /\ IsRound2(BonusCase.perf,
                   MulDiv(BonusCase.target, req.performance_multiplier.num, 100))

\* C4 amended: target_bonus_amount is base * targetBonusPercent rounded to 2
\* decimals, and performance_bonus is the unrounded product
\* base * targetBonusPercent * multiplier rounded to 2 decimals.
C4_UnroundedTargetMultiplied ==
    BonusComputed =>
       /\ IsRound2(BonusCase.target,
                   MulDiv(BonusCase.base, TargetBonusPercentInit[req.role_level], 100))
       /\ IsRound2(BonusCase.perf,
                   MulFrac(MulDiv(BonusCase.base, TargetBonusPercentInit[req.role_level], 100),
                           req.performance_multiplier.num, 100))

\* base 0.01, Junior, multiplier 3.33: target 0.003 -> 0.00, bonus 0.00999 -> 0.01
C4_Witness ==
    /\ Called("calculate_performance_bonus")
    /\ req.calculated_base_salary = Num(1)
    /\ req.role_level = "Junior"
    /\ req.performance_multiplier = Num(333)
    /\ Out = Ret(<<0, 1>>)

\* the LTI stage as the call in hand reached it
LtiCase ==
    IF req.fn = "calculate_lti_and_cash"
    THEN [perf |-> req.performance_bonus, target |-> req.target_bonus_amount,
          deferred |-> Out.ret.deferred_cash, equity |-> Out.ret.equity_award_value,
          fund |-> Out.ret.fund_investment_amount,
          immediate |-> Out.ret.immediate_cash_bonus]
    ELSE [perf |-> Num(Out.ret.performance_bonus),
          target |-> Num(Out.ret.target_bonus_amount),
          deferred |-> Out.ret.lti_breakdown.deferred_cash,
          equity |-> Out.ret.lti_breakdown.equity_award_value,
          fund |-> Out.ret.lti_breakdown.fund_investment_amount,
          immediate |-> Out.ret.immediate_cash_bonus]

\* an LTI stage that ran to its end
LtiComputed ==
    /\ Served
    /\ req.fn \in {"calculate_lti_and_cash", "calculate_total_compensation"}
    /\ req.role_level \in ValidRoles
    /\ \/ req.fn = "calculate_lti_and_cash" /\ ~Raised(Out)
       \/ req.fn = "calculate_total_compensation" /\ "error" \notin DOMAIN Out.ret

\* C5: deferred_cash + fund_investment_amount + immediate_cash_bonus equals
\* performance_bonus within 0.02; equity_award_value is not part of the sum.
C5_BonusPoolConserved ==
    LtiComputed =>
       LET sum == LtiCase.deferred + LtiCase.fund + LtiCase.immediate
       IN  /\ sum - LtiCase.perf.num <= 2
           /\ LtiCase.perf.num - sum <= 2

\* Executive, bonus 0.01, target 359375.00: the three parts round to 0 while
\* the equity award is 179687.50
C5_Witness ==
    /\ Called("calculate_lti_and_cash")
    /\ req.role_level = "Executive"
    /\ req.performance_bonus = Num(1)
    /\ req.target_bonus_amount = Num(35937500)
    /\ Out.ret.deferred_cash + Out.ret.fund_investment_amount
         + Out.ret.immediate_cash_bonus = 0
    /\ Out.ret.equity_award_value = 17968750

EquityFactor(role) ==
    CASE role = "Junior" -> 0
      [] role = "Mid-level" -> 25
      [] role = "Senior" -> 40
      [] role = "Executive" -> 50

\* C6: equity_award_value is 0 for Junior and round(target_bonus_amount *
\* equityFactor(role), 2) for the other roles; in the orchestrator it is the
\* same for every performance_multiplier, the other inputs being equal.
C6_EquityFromTarget ==
    /\ LtiComputed =>
          IF req.role_level = "Junior" THEN LtiCase.equity = 0
          ELSE /\ IsNum(LtiCase.target)
               /\ IsRound2(LtiCase.equity,
                           MulDiv(LtiCase.target.num, EquityFactor(req.role_level), 100))
    /\ (LtiComputed /\ req.fn = "calculate_total_compensation") =>
          \A m \in Multipliers :
             IsNum(m) =>
                calculate_total_compensation(req.role_level, req.team_revenue,
                        req.last_years_salary, m).lti_breakdown.equity_award_value
                = LtiCase.equity

\* Executive, 20M revenue, 250000 last year: equity 179687.50 at multiplier 0
C6_Witness ==
    /\ Called("calculate_total_compensation")
    /\ req.role_level = "Executive"
    /\ req.team_revenue = Num(2000000000)
    /\ req.last_years_salary = Num(25000000)
    /\ req.performance_multiplier = Num(0)
    /\ Out.ret.performance_bonus = 0
    /\ Out.ret.lti_breakdown.equity_award_value = 17968750

\* the record holds the seven money fields and nothing else
CompleteSuccess(out) ==
    /\ DOMAIN out = {"calculated_base_salary", "target_bonus_amount", "performance_bonus",
                     "lti_breakdown", "immediate_cash_bonus"}
    /\ DOMAIN out.lti_breakdown = {"deferred_cash", "equity_award_value",
                                   "fund_investment_amount"}
    /\ {out.calculated_base_salary, out.target_bonus_amount, out.performance_bonus,
        out.lti_breakdown.deferred_cash, out.lti_breakdown.equity_award_value,
        out.lti_breakdown.fund_investment_amount, out.immediate_cash_bonus} \subseteq Int

\* the record holds the error message and nothing else
ErrorOnly(out) == DOMAIN out = {"error"} /\ out.error \in STRING

\* C8: calculate_total_compensation returns either a complete success record
\* or a record holding only the error; the stages run in the order base salary,
\* performance bonus, LTI, and the stage that fails is the last one to run.
C8_AllOrError ==
    Called("calculate_total_compensation") =>
       LET out == Out.ret
           b == calculate_base_salary(req.role_level, req.team_revenue,
                                      req.last_years_salary)
           p == calculate_performance_bonus(Num(b.ret), req.role_level,
                                            req.performance_multiplier)
           l == calculate_lti_and_cash(Num(p.ret[2]), Num(p.ret[1]), req.role_level)
       IN  /\ CompleteSuccess(out) \/ ErrorOnly(out)
           /\ ~(CompleteSuccess(out) /\ ErrorOnly(out))
           /\ IF Raised(b)
              THEN ErrorOnly(out) /\ stages = <<"calculate_base_salary">>
              ELSE IF Raised(p)
              THEN /\ ErrorOnly(out)
                   /\ stages = <<"calculate_base_salary", "calculate_performance_bonus">>
              ELSE /\ stages = <<"calculate_base_salary", "calculate_performance_bonus",
                                 "calculate_lti_and_cash">>
                   /\ IF Raised(l) THEN ErrorOnly(out) ELSE CompleteSuccess(out)

\* the bonus stage fails on a multiplier that is no number: LTI never runs
C8_Witness ==
    /\ Called("calculate_total_compensation")
    /\ req.role_level = "Senior"
    /\ req.performance_multiplier = Str("abc")
    /\ IsNum(req.team_revenue) /\ IsNum(req.last_years_salary)
    /\ stages = <<"calculate_base_salary", "calculate_performance_bonus">>
    /\ Out = Ret([error |-> UNEXPECTED])

\* C10: for a valid role and non-negative inputs every money field of a
\* successful result is non-negative; deferral_pct + fund_investment_pct <= 1
\* for each role; and the immediate cash is the rounded residual itself, so a
\* negative residual is returned as it is.
C10_NonNegativeMoney ==
    /\ \A r \in ValidRoles :
          LTI_RULES[r].deferral_pct + LTI_RULES[r].fund_investment_pct <= 100
    /\ (Called("calculate_total_compensation") /\ req.role_level \in ValidRoles
          /\ NonNegative(req.team_revenue) /\ NonNegative(req.last_years_salary)
          /\ NonNegative(req.performance_multiplier))
       => LET out == Out.ret
          IN  /\ CompleteSuccess(out)
              /\ \A v \in {out.calculated_base_salary, out.target_bonus_amount,
                           out.performance_bonus, out.lti_breakdown.deferred_cash,
                           out.lti_breakdown.equity_award_value,
                           out.lti_breakdown.fund_investment_amount,
                           out.immediate_cash_bonus} : v >= 0
    /\ (Called("calculate_lti_and_cash") /\ ~Raised(Out)
          /\ req.role_level \in ValidRoles)
       => IsRound2(Out.ret.immediate_cash_bonus,
                   MulDiv(req.performance_bonus.num,
                          100 - LtiRulesInit[req.role_level].deferral_pct
                              - LtiRulesInit[req.role_level].fund_investment_pct, 100))

\* the test's example: every field positive, immediate cash 172500.00
C10_Witness ==
    /\ Called("calculate_total_compensation")
    /\ req.role_level = "Executive"
    /\ req.team_revenue = Num(2000000000)
    /\ req.last_years_salary = Num(25000000)
    /\ req.performance_multiplier = Num(120)
    /\ Out.ret.immediate_cash_bonus = 17250000
    /\ Out.ret.lti_breakdown.deferred_cash = 17250000

\* an upload whose table has the four required columns
TableServed ==
    /\ Called("batch_calculate_compensation")
    /\ req.file = "table"
    /\ \A i \in 1..Len(required_fields) : required_fields[i] \in req.columns

Coercible(row) ==
    /\ ~Raised(float(row.team_revenue))
    /\ ~Raised(float(row.last_years_salary))
    /\ ~Raised(float(row.performance_multiplier))

\* what the single-record calculation returns for the row alone
SingleRecord(row) ==
    calculate_total_compensation(row.role_level,
                                 Num(float(row.team_revenue).ret),
                                 Num(float(row.last_years_salary).ret),
                                 Num(float(row.performance_multiplier).ret))

\* C7: the batch yields one record per input row, in input order; each record
\* carries the row's input fields and either the single-record result of that
\* row or that row's error, whatever the other rows are.
C7_RowWiseBatch ==
    TableServed =>
       /\ Out.status = 200
       /\ Len(Out.body) = Len(req.rows)
       /\ \A i \in 1..Len(req.rows) :
             LET row == req.rows[i]
                 rec == Out.body[i]
             IN  /\ \A f \in DOMAIN row : rec[f] = row[f]
                 /\ IF Coercible(row)
                    THEN /\ DOMAIN rec = DOMAIN row \cup DOMAIN SingleRecord(row)
                         /\ \A f \in DOMAIN SingleRecord(row) : rec[f] = SingleRecord(row)[f]
                    ELSE /\ DOMAIN rec = DOMAIN row \cup {"error"}
                         /\ rec.error \in STRING

\* a row with an unknown role and a non-coercible revenue, then a row that
\* succeeds
C7_Witness ==
    /\ TableServed
    /\ Len(req.rows) = 2
    /\ req.rows[1].role_level = "Manager"
    /\ req.rows[1].team_revenue = Str("abc")
    /\ req.rows[2].role_level = "Executive"
    /\ req.rows[2].performance_multiplier = Str("1.2")
    /\ Out.body[1].error = "could not convert string to float: 'abc'"
    /\ "error" \notin DOMAIN Out.body[2]
    /\ Out.body[2].performance_bonus = 43125000

\* C3, batch part: a row with a negative number yields no success record.
C3_NegativeRowRejected ==
    TableServed =>
       \A i \in 1..Len(req.rows) :
          (\E f \in {"team_revenue", "last_years_salary", "performance_multiplier"} :
              /\ ~Raised(float(req.rows[i][f]))
              /\ float(req.rows[i][f]).ret < 0)
          => "error" \in DOMAIN Out.body[i]

\* C9: no call changes the rule tables, and the orchestrator returns for the
\* input of its first call what it returned then, whatever was called between.
C9_TablesFixedAndDeterministic ==
    /\ BASE_SALARY_PARAMS = BaseSalaryParamsInit
    /\ TARGET_BONUS_PERCENT = TargetBonusPercentInit
    /\ LTI_RULES = LtiRulesInit
    /\ SALARY_CAP_LOWER_BOUND = SalaryCapLowerInit
    /\ SALARY_CAP_UPPER_BOUND = SalaryCapUpperInit
    /\ (Called("calculate_total_compensation") /\ first # NoCall /\ req = first.req)
       => Out = first.resp

\* C9 as a step property: every call leaves the rule tables as they were.
C9_CallsLeaveTables == [][rules' = rules]_vars

\* the orchestrator, then calculate_base_salary, then the orchestrator again
\* on the first input
C9_Witness ==
    /\ Called("calculate_total_compensation")
    /\ first # NoCall
    /\ first.at = 1
    /\ calls = 3
    /\ seen = {"calculate_total_compensation", "calculate_base_salary"}
    /\ req = first.req
    /\ req.role_level = "Senior"
    /\ "error" \notin DOMAIN Out.ret
    /\ Out = first.resp

====
